---- MODULE Spec2Model ----
(***************************************************************************)
(* Stopwatch of Exam-project/script.js: the module state (intervalId,      *)
(* startTimestamp, elapsedMs, laps), the browser objects it talks to (the  *)
(* monotonic clock performance.now(), the table of active interval timers, *)
(* the localStorage item, the #time text and the four buttons) and one     *)
(* action per event listener.                                              *)
(*                                                                         *)
(* Times are whole milliseconds.  JS strings are sequences of one-character*)
(* strings.  JSON text is modelled by the value it parses to, every value  *)
(* tagged with its JS type, so that the reader's type tests are visible.   *)
(***************************************************************************)
EXTENDS Integers, Sequences, FiniteSets, TLC

VARIABLES
  now,            \* reading of performance.now()
  intervalId,     \* script.js:28, NoTimer for null
  startTimestamp, \* script.js:29
  elapsedMs,      \* script.js:30
  laps,           \* script.js:31, newest first
  timers,         \* the browser's active interval timers (ids)
  store,          \* localStorage item under STORAGE_KEY
  storageOk,      \* FALSE when localStorage.setItem throws; TRUE all through Spec
  loaded,         \* globals a loadState call on a foreign item leaves (JS values)
  timeText,       \* timeEl.textContent
  disabled,       \* .disabled of startBtn, stopBtn, resetBtn, lapBtn
  runMs,          \* history: clock time that passed while a timer was held
  lastOp,         \* history: the listener that ran last
  pre             \* history: what the last listener found on entry

vars == <<now, intervalId, startTimestamp, elapsedMs, laps, timers, store,
          storageOk, loaded, timeText, disabled, runMs, lastOp, pre>>

(* ------------------------------ bounds --------------------------------- *)
MaxClockSteps == 6
MaxLaps == 2
ClockSteps == {500, 1000}
ClockLimit == MaxClockSteps * 500

(* ------------------------------ JS values ------------------------------ *)
JNum(n) == [t |-> "number", v |-> n]
JStr(s) == [t |-> "string", v |-> s]
JArr(a) == [t |-> "array", v |-> a]
JObj(o) == [t |-> "object", v |-> o]
JNull == [t |-> "null", v |-> 0]
JUndefined == [t |-> "undefined", v |-> 0]
JBool(b) == [t |-> "boolean", v |-> b]

\* ToBoolean: what `x || 0` and `!raw` test
Truthy(x) ==
  CASE x.t = "number" -> x.v # 0
    [] x.t = "string" -> Len(x.v) > 0
    [] x.t = "boolean" -> x.v
    [] x.t = "null" -> FALSE
    [] x.t = "undefined" -> FALSE
    [] OTHER -> TRUE

\* data.name: undefined unless data is an object holding the property
GetProp(x, name) ==
  IF x.t = "object" /\ name \in DOMAIN x.v THEN x.v[name] ELSE JUndefined

\* a property read throws a TypeError on null and undefined
PropThrows(x) == x.t \in {"null", "undefined"}

(* ------------------------------ helpers -------------------------------- *)
\* the % operator: the remainder takes the sign of the dividend
JsRem(a, b) == IF a >= 0 THEN a % b ELSE 0 - ((0 - a) % b)

DigitChar(d) ==
  CASE d = 0 -> "0" [] d = 1 -> "1" [] d = 2 -> "2" [] d = 3 -> "3"
    [] d = 4 -> "4" [] d = 5 -> "5" [] d = 6 -> "6" [] d = 7 -> "7"
    [] d = 8 -> "8" [] d = 9 -> "9"

RECURSIVE NatToString(_)
NatToString(n) ==
  IF n < 10 THEN <<DigitChar(n)>>
  ELSE NatToString(n \div 10) \o <<DigitChar(n % 10)>>

\* String(n) for an integer n
NumberToString(n) ==
  IF n < 0 THEN <<"-">> \o NatToString(0 - n) ELSE NatToString(n)

RECURSIVE padStart(_, _, _)
padStart(s, width, c) ==
  IF Len(s) >= width THEN s ELSE padStart(<<c>> \o s, width, c)

two(n) == padStart(NumberToString(n), 2, "0")

\* formatTime taking the minutes without `% 3600`
formatTime_NoHourMod(totalSeconds) ==
  LET h == totalSeconds \div 3600
      m == totalSeconds \div 60
      s == JsRem(totalSeconds, 60)
  IN two(h) \o <<":">> \o two(m) \o <<":">> \o two(s)

formatTime(totalSeconds) ==
  LET h == totalSeconds \div 3600
      m == JsRem(totalSeconds, 3600) \div 60
      s == JsRem(totalSeconds, 60)
  IN two(h) \o <<":">> \o two(m) \o <<":">> \o two(s)

(* ------------------------------ state ---------------------------------- *)
NoTimer == 0
TimeOrigin == 100000

\* Date.now(): the wall clock, performance.timeOrigin + performance.now()
DateNow == TimeOrigin + now

InitialState == [elapsedMs |-> JNum(0), laps |-> JArr(<<>>)]

\* a setInterval handle: an integer > 0 that is not an active timer's
TimerIds(ts) == (1..(Cardinality(ts) + 1)) \ ts

(* ------------------------------ persistence ---------------------------- *)
\* localStorage.getItem results: null, or a text
NoItem == [kind |-> "none", val |-> JUndefined]
EmptyText == [kind |-> "empty", val |-> JUndefined]
BadText == [kind |-> "garbage", val |-> JUndefined]
JsonText(v) == [kind |-> "json", val |-> v]

LapToJson(l) == JObj([timeMs |-> JNum(l.timeMs), label |-> JStr(l.label)])
LapFromJson(j) == [timeMs |-> j.v.timeMs.v, label |-> j.v.label.v]

\* JSON.stringify({ elapsedMs, laps, savedAt: Date.now() })
StringifyPayload(e, ls, savedAt) ==
  JsonText(JObj([elapsedMs |-> JNum(e),
                 laps |-> JArr([i \in 1..Len(ls) |-> LapToJson(ls[i])]),
                 savedAt |-> JNum(savedAt)]))

\* saveState: the item after the call; a throwing setItem is swallowed
saveState(item, e, ls, savedAt, writeOk) ==
  IF writeOk THEN StringifyPayload(e, ls, savedAt) ELSE item

\* loadState reading the key the persisted layout documents, not the one written
loadState_WrongKey(raw, mem) ==
  IF raw.kind \in {"none", "empty"} THEN mem
  ELSE IF raw.kind = "garbage" THEN mem
  ELSE LET data == raw.val IN
    IF PropThrows(data) THEN mem
    ELSE LET e == GetProp(data, "accumulatedMs")
             l == GetProp(data, "laps")
         IN [elapsedMs |-> IF Truthy(e) THEN e ELSE JNum(0),
             laps |-> IF l.t = "array" THEN l ELSE JArr(<<>>)]

\* loadState: the globals after the call, mem being the globals before it
loadState(raw, mem) ==
  IF raw.kind \in {"none", "empty"} THEN mem                 \* if (!raw) return
  ELSE IF raw.kind = "garbage" THEN mem                      \* JSON.parse throws
  ELSE LET data == raw.val IN
    IF PropThrows(data) THEN mem                             \* data.elapsedMs throws
    ELSE LET e == GetProp(data, "elapsedMs")
             l == GetProp(data, "laps")
         IN [elapsedMs |-> IF Truthy(e) THEN e ELSE JNum(0),
             laps |-> IF l.t = "array" THEN l ELSE JArr(<<>>)]

MemElapsedMs(m) == m.elapsedMs.v
MemLaps(m) == [i \in 1..Len(m.laps.v) |-> LapFromJson(m.laps.v[i])]

(* ------------------------------ display -------------------------------- *)
CurrentElapsed(e, id, st, t) == e + (IF id # NoTimer THEN t - st ELSE 0)

CurrentElapsedMs == CurrentElapsed(elapsedMs, intervalId, startTimestamp, now)

\* updateDisplay: the text it writes to timeEl
updateDisplay(e, id, st, t) == formatTime(CurrentElapsed(e, id, st, t) \div 1000)

(* ------------------------------ history -------------------------------- *)
NoPre == [running |-> FALSE, cur |-> 0, nlaps |-> 0]

\* a listener or a page load is entered: remember what it found
Enter(op) ==
  /\ lastOp' = op
  /\ pre' = [running |-> intervalId # NoTimer, cur |-> CurrentElapsedMs,
             nlaps |-> Len(laps)]

\* something else happened
Other(op) ==
  /\ lastOp' = op
  /\ pre' = NoPre

(* ------------------------------ page load ------------------------------ *)
\* init(), lines 145-154, run on the freshly declared globals (28-31)
InitPage(item) ==
  LET m == loadState(item, InitialState) IN
  /\ elapsedMs' = MemElapsedMs(m)
  /\ laps' = MemLaps(m)
  /\ intervalId' = NoTimer
  /\ startTimestamp' = 0
  /\ timers' = {}
  /\ timeText' = updateDisplay(MemElapsedMs(m), NoTimer, 0, now)
  /\ disabled' = [start |-> FALSE, stop |-> TRUE,
                  reset |-> (MemElapsedMs(m) = 0 /\ Len(MemLaps(m)) = 0),
                  lap |-> TRUE]

\* first visit: nothing stored, init() has run
Init ==
  /\ now = 0
  /\ store = NoItem
  /\ storageOk = TRUE
  /\ loaded = InitialState
  /\ elapsedMs = 0
  /\ laps = <<>>
  /\ intervalId = NoTimer
  /\ startTimestamp = 0
  /\ timers = {}
  /\ timeText = formatTime(0)
  /\ disabled = [start |-> FALSE, stop |-> TRUE, reset |-> TRUE, lap |-> TRUE]
  /\ runMs = 0
  /\ lastOp = "init"
  /\ pre = NoPre

(* ------------------------------ environment ---------------------------- *)
\* the monotonic clock moves on; no listener runs
Advance ==
  \E d \in ClockSteps :
    /\ now + d <= ClockLimit
    /\ now' = now + d
    /\ runMs' = runMs + (IF intervalId # NoTimer THEN d ELSE 0)
    /\ Other("advance")
    /\ UNCHANGED <<intervalId, startTimestamp, elapsedMs, laps, timers, store,
                   storageOk, loaded, timeText, disabled>>

\* the page is closed and opened again: timers and globals die, init() runs
\* (performance.now() restarts with the page; only differences of readings
\* taken within one page are ever used, so the reading is left running on)
Reload ==
  /\ InitPage(store)
  /\ runMs' = MemElapsedMs(loadState(store, InitialState))
  /\ Enter("reload")
  /\ UNCHANGED <<now, store, storageOk, loaded>>

(* ------------------------------ listeners ------------------------------ *)
\* A listener runs whenever its event is dispatched.  The .disabled flags
\* keep user clicks away from a button but are no part of the listeners, so
\* every listener is modelled as callable in every state, as the guards of
\* the start and stop listeners themselves assume.
\* tick() that folds the open segment into elapsedMs and takes a new anchor
Tick_Rebase ==
  \E id \in timers :
    /\ elapsedMs' = elapsedMs + (now - startTimestamp)
    /\ startTimestamp' = now
    /\ timeText' = updateDisplay(elapsedMs', intervalId, now, now)
    /\ Other("tick")
    /\ UNCHANGED <<now, intervalId, laps, timers, store, storageOk, loaded,
                   disabled, runMs>>

\* tick(), fired by an active interval timer
Tick ==
  \E id \in timers :
    /\ timeText' = updateDisplay(elapsedMs, intervalId, startTimestamp, now)
    /\ Other("tick")
    /\ UNCHANGED <<now, intervalId, startTimestamp, elapsedMs, laps, timers,
                   store, storageOk, loaded, disabled, runMs>>

\* visibilitychange listener
VisibilityChange ==
  \E visibilityState \in {"visible", "hidden"} :
    /\ timeText' = IF visibilityState = "visible"
                   THEN updateDisplay(elapsedMs, intervalId, startTimestamp, now)
                   ELSE timeText
    /\ Other("visibilitychange")
    /\ UNCHANGED <<now, intervalId, startTimestamp, elapsedMs, laps, timers,
                   store, storageOk, loaded, disabled, runMs>>

\* startBtn listener without its `if (intervalId) return`
StartClick_NoGuard ==
  /\ Enter("start")
  /\ \E id \in TimerIds(timers) :
       /\ startTimestamp' = now
       /\ intervalId' = id
       /\ timers' = timers \cup {id}
       /\ timeText' = updateDisplay(elapsedMs, id, now, now)
       /\ disabled' = [start |-> TRUE, stop |-> FALSE,
                       reset |-> FALSE, lap |-> FALSE]
       /\ UNCHANGED <<now, elapsedMs, laps, store, storageOk, loaded, runMs>>

\* startBtn listener that takes no new anchor
StartClick_NoAnchor ==
  /\ Enter("start")
  /\ IF intervalId # NoTimer
     THEN UNCHANGED <<now, intervalId, startTimestamp, elapsedMs, laps, timers,
                      store, storageOk, loaded, timeText, disabled, runMs>>
     ELSE \E id \in TimerIds(timers) :
            /\ intervalId' = id
            /\ timers' = timers \cup {id}
            /\ timeText' = updateDisplay(elapsedMs, id, startTimestamp, now)
            /\ disabled' = [start |-> TRUE, stop |-> FALSE,
                            reset |-> FALSE, lap |-> FALSE]
            /\ UNCHANGED <<now, startTimestamp, elapsedMs, laps, store,
                           storageOk, loaded, runMs>>

\* startBtn click listener
StartClick ==
  /\ Enter("start")
  /\ IF intervalId # NoTimer
     THEN UNCHANGED <<now, intervalId, startTimestamp, elapsedMs, laps, timers,
                      store, storageOk, loaded, timeText, disabled, runMs>>
     ELSE \E id \in TimerIds(timers) :
            /\ startTimestamp' = now
            /\ intervalId' = id
            /\ timers' = timers \cup {id}
            /\ timeText' = updateDisplay(elapsedMs, id, now, now)
            /\ disabled' = [start |-> TRUE, stop |-> FALSE,
                            reset |-> FALSE, lap |-> FALSE]
            /\ UNCHANGED <<now, elapsedMs, laps, store, storageOk, loaded, runMs>>

\* stopBtn listener with `elapsedMs = now - startTimestamp`
StopClick_Overwrite ==
    IF intervalId = NoTimer
    THEN /\ Enter("stop")
         /\ UNCHANGED <<now, intervalId, startTimestamp, elapsedMs, laps,
                        timers, store, storageOk, loaded, timeText, disabled, runMs>>
    ELSE /\ elapsedMs' = now - startTimestamp
         /\ timers' = timers \ {intervalId}
         /\ intervalId' = NoTimer
         /\ timeText' = updateDisplay(elapsedMs', NoTimer, startTimestamp, now)
         /\ disabled' = [start |-> FALSE, stop |-> TRUE,
                         reset |-> FALSE, lap |-> TRUE]
         /\ store' = saveState(store, elapsedMs', laps, DateNow, storageOk)
         /\ Enter("stop")
         /\ UNCHANGED <<now, startTimestamp, laps, storageOk, loaded, runMs>>

\* stopBtn listener without `intervalId = null`
StopClick_NoNull ==
    IF intervalId = NoTimer
    THEN /\ Enter("stop")
         /\ UNCHANGED <<now, intervalId, startTimestamp, elapsedMs, laps,
                        timers, store, storageOk, loaded, timeText, disabled, runMs>>
    ELSE /\ elapsedMs' = elapsedMs + (now - startTimestamp)
         /\ timers' = timers \ {intervalId}
         /\ timeText' = updateDisplay(elapsedMs', intervalId, startTimestamp, now)
         /\ disabled' = [start |-> FALSE, stop |-> TRUE,
                         reset |-> FALSE, lap |-> TRUE]
         /\ store' = saveState(store, elapsedMs', laps, DateNow, storageOk)
         /\ Enter("stop")
         /\ UNCHANGED <<now, intervalId, startTimestamp, laps, storageOk,
                        loaded, runMs>>

\* stopBtn listener without clearInterval
StopClick_NoClear ==
    IF intervalId = NoTimer
    THEN /\ Enter("stop")
         /\ UNCHANGED <<now, intervalId, startTimestamp, elapsedMs, laps,
                        timers, store, storageOk, loaded, timeText, disabled, runMs>>
    ELSE /\ elapsedMs' = elapsedMs + (now - startTimestamp)
         /\ intervalId' = NoTimer
         /\ timeText' = updateDisplay(elapsedMs', NoTimer, startTimestamp, now)
         /\ disabled' = [start |-> FALSE, stop |-> TRUE,
                         reset |-> FALSE, lap |-> TRUE]
         /\ store' = saveState(store, elapsedMs', laps, DateNow, storageOk)
         /\ Enter("stop")
         /\ UNCHANGED <<now, startTimestamp, laps, timers, storageOk, loaded,
                        runMs>>

\* stopBtn listener that saves first, outside a try: a throwing setItem
\* ends the listener before it has done anything
StopClick_SaveFirst ==
    IF intervalId = NoTimer \/ ~storageOk
    THEN /\ Enter("stop")
         /\ UNCHANGED <<now, intervalId, startTimestamp, elapsedMs, laps,
                        timers, store, storageOk, loaded, timeText, disabled, runMs>>
    ELSE /\ elapsedMs' = elapsedMs + (now - startTimestamp)
         /\ timers' = timers \ {intervalId}
         /\ intervalId' = NoTimer
         /\ timeText' = updateDisplay(elapsedMs', NoTimer, startTimestamp, now)
         /\ disabled' = [start |-> FALSE, stop |-> TRUE,
                         reset |-> FALSE, lap |-> TRUE]
         /\ store' = saveState(store, elapsedMs', laps, DateNow, storageOk)
         /\ Enter("stop")
         /\ UNCHANGED <<now, startTimestamp, laps, storageOk, loaded, runMs>>

\* stopBtn listener without its `if (!intervalId) return`
StopClick_NoGuard ==
    /\ elapsedMs' = elapsedMs + (now - startTimestamp)
    /\ timers' = timers \ {intervalId}
    /\ intervalId' = NoTimer
    /\ timeText' = updateDisplay(elapsedMs', NoTimer, startTimestamp, now)
    /\ disabled' = [start |-> FALSE, stop |-> TRUE,
                    reset |-> FALSE, lap |-> TRUE]
    /\ store' = saveState(store, elapsedMs', laps, DateNow, storageOk)
    /\ Enter("stop")
    /\ UNCHANGED <<now, startTimestamp, laps, storageOk, loaded, runMs>>

\* stopBtn listener without its updateDisplay()
StopClick_NoRefresh ==
    IF intervalId = NoTimer
    THEN /\ Enter("stop")
         /\ UNCHANGED <<now, intervalId, startTimestamp, elapsedMs, laps,
                        timers, store, storageOk, loaded, timeText, disabled, runMs>>
    ELSE /\ elapsedMs' = elapsedMs + (now - startTimestamp)
         /\ timers' = timers \ {intervalId}
         /\ intervalId' = NoTimer
         /\ disabled' = [start |-> FALSE, stop |-> TRUE,
                         reset |-> FALSE, lap |-> TRUE]
         /\ store' = saveState(store, elapsedMs', laps, DateNow, storageOk)
         /\ Enter("stop")
         /\ UNCHANGED <<now, startTimestamp, laps, storageOk, loaded, timeText,
                        runMs>>

\* stopBtn click listener
StopClick ==
    IF intervalId = NoTimer
    THEN /\ Enter("stop")
         /\ UNCHANGED <<now, intervalId, startTimestamp, elapsedMs, laps,
                        timers, store, storageOk, loaded, timeText, disabled, runMs>>
    ELSE /\ elapsedMs' = elapsedMs + (now - startTimestamp)
         /\ timers' = timers \ {intervalId}
         /\ intervalId' = NoTimer
         /\ timeText' = updateDisplay(elapsedMs', NoTimer, startTimestamp, now)
         /\ disabled' = [start |-> FALSE, stop |-> TRUE,
                         reset |-> FALSE, lap |-> TRUE]
         /\ store' = saveState(store, elapsedMs', laps, DateNow, storageOk)
         /\ Enter("stop")
         /\ UNCHANGED <<now, startTimestamp, laps, storageOk, loaded, runMs>>

\* resetBtn listener without `laps = []`
ResetClick_KeepLaps ==
    /\ timers' = IF intervalId # NoTimer THEN timers \ {intervalId} ELSE timers
    /\ intervalId' = NoTimer
    /\ elapsedMs' = 0
    /\ startTimestamp' = 0
    /\ timeText' = updateDisplay(0, NoTimer, 0, now)
    /\ disabled' = [start |-> FALSE, stop |-> TRUE,
                    reset |-> TRUE, lap |-> TRUE]
    /\ store' = saveState(store, 0, laps, DateNow, storageOk)
    /\ runMs' = 0
    /\ Enter("reset")
    /\ UNCHANGED <<now, laps, storageOk, loaded>>

\* resetBtn click listener
ResetClick ==
    /\ timers' = IF intervalId # NoTimer THEN timers \ {intervalId} ELSE timers
    /\ intervalId' = NoTimer
    /\ elapsedMs' = 0
    /\ startTimestamp' = 0
    /\ laps' = <<>>
    /\ timeText' = updateDisplay(0, NoTimer, 0, now)
    /\ disabled' = [start |-> FALSE, stop |-> TRUE,
                    reset |-> TRUE, lap |-> TRUE]
    /\ store' = saveState(store, 0, <<>>, DateNow, storageOk)
    /\ runMs' = 0
    /\ Enter("reset")
    /\ UNCHANGED <<now, storageOk, loaded>>

\* lapBtn listener with laps.push in place of laps.unshift
LapClick_Push ==
    /\ Len(laps) < MaxLaps
    /\ LET currentElapsedMs == CurrentElapsed(elapsedMs, intervalId,
                                              startTimestamp, now)
           seconds == currentElapsedMs \div 1000
           formatted == formatTime(seconds)
       IN laps' = laps \o <<[timeMs |-> currentElapsedMs, label |-> formatted]>>
    /\ store' = saveState(store, elapsedMs, laps', DateNow, storageOk)
    /\ Enter("lap")
    /\ UNCHANGED <<now, intervalId, startTimestamp, elapsedMs, timers,
                   storageOk, loaded, timeText, disabled, runMs>>

\* lapBtn listener without its saveState()
LapClick_NoSave ==
    /\ Len(laps) < MaxLaps
    /\ LET currentElapsedMs == CurrentElapsed(elapsedMs, intervalId,
                                              startTimestamp, now)
           seconds == currentElapsedMs \div 1000
           formatted == formatTime(seconds)
       IN laps' = <<[timeMs |-> currentElapsedMs, label |-> formatted]>> \o laps
    /\ Enter("lap")
    /\ UNCHANGED <<now, intervalId, startTimestamp, elapsedMs, timers, store,
                   storageOk, loaded, timeText, disabled, runMs>>

\* lapBtn listener with Math.round in place of Math.floor
LapClick_RoundLabel ==
    /\ Len(laps) < MaxLaps
    /\ LET currentElapsedMs == CurrentElapsed(elapsedMs, intervalId,
                                              startTimestamp, now)
           seconds == (currentElapsedMs + 500) \div 1000
           formatted == formatTime(seconds)
       IN laps' = <<[timeMs |-> currentElapsedMs, label |-> formatted]>> \o laps
    /\ store' = saveState(store, elapsedMs, laps', DateNow, storageOk)
    /\ Enter("lap")
    /\ UNCHANGED <<now, intervalId, startTimestamp, elapsedMs, timers,
                   storageOk, loaded, timeText, disabled, runMs>>

\* lapBtn click listener
LapClick ==
    /\ Len(laps) < MaxLaps
    /\ LET currentElapsedMs == CurrentElapsed(elapsedMs, intervalId,
                                              startTimestamp, now)
           seconds == currentElapsedMs \div 1000
           formatted == formatTime(seconds)
       IN laps' = <<[timeMs |-> currentElapsedMs, label |-> formatted]>> \o laps
    /\ store' = saveState(store, elapsedMs, laps', DateNow, storageOk)
    /\ Enter("lap")
    /\ UNCHANGED <<now, intervalId, startTimestamp, elapsedMs, timers,
                   storageOk, loaded, timeText, disabled, runMs>>

Next ==
  \/ Advance
  \/ Reload
  \/ Tick
  \/ VisibilityChange
  \/ StartClick
  \/ StopClick
  \/ ResetClick
  \/ LapClick

Spec == Init /\ [][Next]_vars

(* ------------------------------ clock only ----------------------------- *)
\* start() and stop() interleaved with clock advances and display refreshes
NextClock ==
  \/ Advance
  \/ Tick
  \/ VisibilityChange
  \/ StartClick
  \/ StopClick

SpecClock == Init /\ [][NextClock]_vars

(* ------------------------------ foreign items -------------------------- *)
Absent == [t |-> "absent", v |-> 0]

StoredLap(ms, secs) == JObj([timeMs |-> JNum(ms), label |-> JStr(formatTime(secs))])

ElapsedFields ==
  {Absent, JNull, JBool(TRUE), JStr(<<"a", "b", "c">>),
   JNum(0 - 500), JNum(0), JNum(2000)}

LapsFields ==
  {Absent, JNull, JNum(3), JStr(<<"x">>), JObj([length |-> JNum(1)]),
   JArr(<<>>), JArr(<<StoredLap(1000, 1)>>),
   JArr(<<StoredLap(3000, 3), StoredLap(1000, 1)>>)}

\* the text of an object holding the given properties (Absent: not there)
ObjectText(e, l) ==
  LET keys == (IF e.t = "absent" THEN {} ELSE {"elapsedMs"})
              \cup (IF l.t = "absent" THEN {} ELSE {"laps"})
              \cup {"savedAt"}
  IN JsonText(JObj([k \in keys |->
       CASE k = "elapsedMs" -> e
         [] k = "laps" -> l
         [] OTHER -> JNum(TimeOrigin)]))

RawItems ==
  {NoItem, EmptyText, BadText, JsonText(JNull), JsonText(JNum(5)),
   JsonText(JStr(<<"x">>)), JsonText(JArr(<<>>))}
  \cup {ObjectText(e, l) : e \in ElapsedFields, l \in LapsFields}

\* a page about to run loadState on whatever the origin's storage holds
InitLoad ==
  /\ now = 0
  /\ store \in RawItems
  /\ storageOk = TRUE
  /\ loaded = InitialState
  /\ elapsedMs = 0
  /\ laps = <<>>
  /\ intervalId = NoTimer
  /\ startTimestamp = 0
  /\ timers = {}
  /\ timeText = formatTime(0)
  /\ disabled = [start |-> FALSE, stop |-> FALSE, reset |-> FALSE, lap |-> FALSE]
  /\ runMs = 0
  /\ lastOp = "script"
  /\ pre = NoPre

\* the loadState() call of init()
LoadState ==
  /\ lastOp = "script"
  /\ loaded' = loadState(store, InitialState)
  /\ lastOp' = "loadState"
  /\ UNCHANGED <<now, intervalId, startTimestamp, elapsedMs, laps, timers,
                 store, storageOk, timeText, disabled, runMs, pre>>

NextLoad == LoadState

SpecLoad == InitLoad /\ [][NextLoad]_vars

(* ------------------------------ startup on any item -------------------- *)
\* In SpecStartup the globals elapsedMs and laps are the JS values held in
\* `loaded`; the variables elapsedMs and laps are not used.

DigitValue(c) ==
  CASE c = "0" -> 0 [] c = "1" -> 1 [] c = "2" -> 2 [] c = "3" -> 3
    [] c = "4" -> 4 [] c = "5" -> 5 [] c = "6" -> 6 [] c = "7" -> 7
    [] c = "8" -> 8 [] c = "9" -> 9

IsDigits(s) ==
  /\ Len(s) > 0
  /\ \A i \in 1..Len(s) :
       s[i] \in {"0", "1", "2", "3", "4", "5", "6", "7", "8", "9"}

RECURSIVE DigitsToNat(_)
DigitsToNat(s) ==
  IF Len(s) = 0 THEN 0
  ELSE DigitsToNat(SubSeq(s, 1, Len(s) - 1)) * 10 + DigitValue(s[Len(s)])

\* formatTime(NaN): every field is String(NaN)
NaNText == <<"N", "a", "N", ":", "N", "a", "N", ":", "N", "a", "N">>

\* updateDisplay while Stopped for a global elapsedMs of any loaded type:
\* elapsedMs + 0 adds numbers (true counts 1) and appends "0" to a string,
\* and the division turns a text that is no number into NaN
updateDisplayOf(e) ==
  CASE e.t = "number" -> formatTime(e.v \div 1000)
    [] e.t = "boolean" -> formatTime((IF e.v THEN 1 ELSE 0) \div 1000)
    [] e.t = "string" ->
         LET text == e.v \o <<"0">> IN
         IF IsDigits(text) THEN formatTime(DigitsToNat(text) \div 1000)
         ELSE NaNText

\* elapsedMs === 0 && laps.length === 0
NothingLoaded(m) ==
  /\ m.elapsedMs.t = "number"
  /\ m.elapsedMs.v = 0
  /\ Len(m.laps.v) = 0

\* a page, Stopped or Running, with whatever the origin's storage holds
InitStartup ==
  \E running \in BOOLEAN :
    /\ now = 0
    /\ store \in RawItems
    /\ storageOk = TRUE
    /\ loaded = InitialState
    /\ elapsedMs = 0
    /\ laps = <<>>
    /\ intervalId = (IF running THEN 1 ELSE NoTimer)
    /\ startTimestamp = 0
    /\ timers = (IF running THEN {1} ELSE {})
    /\ timeText = formatTime(0)
    /\ disabled = [start |-> running, stop |-> ~running,
                   reset |-> ~running, lap |-> ~running]
    /\ runMs = 0
    /\ lastOp = (IF running THEN "start" ELSE "init")
    /\ pre = NoPre

\* init() that resumes a stopwatch whose stored time is not zero
Startup_AutoResume ==
  LET m == loadState(store, InitialState)
      resume == m.elapsedMs.t = "number" /\ m.elapsedMs.v # 0
  IN
  /\ lastOp \in {"init", "start"}
  /\ loaded' = m
  /\ intervalId' = (IF resume THEN 1 ELSE NoTimer)
  /\ startTimestamp' = 0
  /\ timers' = (IF resume THEN {1} ELSE {})
  /\ timeText' = updateDisplayOf(m.elapsedMs)
  /\ disabled' = [start |-> resume, stop |-> ~resume,
                  reset |-> NothingLoaded(m), lap |-> ~resume]
  /\ Enter("reload")
  /\ UNCHANGED <<now, store, storageOk, elapsedMs, laps, runMs>>

\* the page is closed and opened again: the declarations (28-31) and init()
Startup ==
  LET m == loadState(store, InitialState) IN
  /\ lastOp \in {"init", "start"}
  /\ loaded' = m
  /\ intervalId' = NoTimer
  /\ startTimestamp' = 0
  /\ timers' = {}
  /\ timeText' = updateDisplayOf(m.elapsedMs)
  /\ disabled' = [start |-> FALSE, stop |-> TRUE,
                  reset |-> NothingLoaded(m), lap |-> TRUE]
  /\ Enter("reload")
  /\ UNCHANGED <<now, store, storageOk, elapsedMs, laps, runMs>>

NextStartup == Startup

SpecStartup == InitStartup /\ [][NextStartup]_vars

(* ------------------------------ failing storage ------------------------ *)
\* first visit with a localStorage that refuses every write (no quota left
\* for the origin, site data turned off): setItem throws all through
InitQuota ==
  /\ now = 0
  /\ store = NoItem
  /\ storageOk = FALSE
  /\ loaded = InitialState
  /\ elapsedMs = 0
  /\ laps = <<>>
  /\ intervalId = NoTimer
  /\ startTimestamp = 0
  /\ timers = {}
  /\ timeText = formatTime(0)
  /\ disabled = [start |-> FALSE, stop |-> TRUE, reset |-> TRUE, lap |-> TRUE]
  /\ runMs = 0
  /\ lastOp = "init"
  /\ pre = NoPre

NextQuota ==
  \/ Advance
  \/ Reload
  \/ Tick
  \/ VisibilityChange
  \/ StartClick
  \/ StopClick
  \/ ResetClick
  \/ LapClick

SpecQuota == InitQuota /\ [][NextQuota]_vars

(* ------------------------------ long times ----------------------------- *)
\* whole seconds around every carry of the three fields, up to 500 hours
FormatSeconds ==
  {h * 3600 + m * 60 + sec : h \in {0, 1, 9, 10, 99, 100, 500},
                             m \in {0, 9, 10, 59}, sec \in {0, 1, 59}}

\* a page about to start on an item a long-running stopwatch has stored
InitFormat ==
  \E t \in FormatSeconds, ms \in {0, 999} :
    /\ now = 0
    /\ store = StringifyPayload(t * 1000 + ms, <<>>, TimeOrigin)
    /\ storageOk = TRUE
    /\ loaded = InitialState
    /\ elapsedMs = 0
    /\ laps = <<>>
    /\ intervalId = NoTimer
    /\ startTimestamp = 0
    /\ timers = {}
    /\ timeText = <<>>
    /\ disabled = [start |-> FALSE, stop |-> FALSE, reset |-> FALSE,
                   lap |-> FALSE]
    /\ runMs = 0
    /\ lastOp = "script"
    /\ pre = NoPre

\* init() shows the stored time; a display refresh shows it again
NextFormat ==
  \/ Reload
  \/ VisibilityChange

SpecFormat == InitFormat /\ [][NextFormat]_vars

(* ------------------------------ properties ----------------------------- *)
\* reading an H:M:S text: the three fields between its colons
Colons(text) == {i \in 1..Len(text) : text[i] = ":"}

Fields(text) ==
  LET cs == Colons(text)
      c1 == CHOOSE i \in cs : \A j \in cs : i <= j
      c2 == CHOOSE i \in cs : \A j \in cs : j <= i
  IN <<SubSeq(text, 1, c1 - 1), SubSeq(text, c1 + 1, c2 - 1),
       SubSeq(text, c2 + 1, Len(text))>>

\* the text is digits:digits:digits
IsClockText(text) ==
  /\ Cardinality(Colons(text)) = 2
  /\ LET f == Fields(text) IN \A k \in 1..3 : IsDigits(f[k])

\* the whole seconds an H:M:S text stands for
TextSeconds(text) ==
  LET f == Fields(text)
  IN 3600 * DigitsToNat(f[1]) + 60 * DigitsToNat(f[2]) + DigitsToNat(f[3])

ProgramVars == <<now, intervalId, startTimestamp, elapsedMs, laps, timers,
                 store, timeText, disabled>>

\* C1: under start(), stop() and advances of the clock from the default
\* state, currentElapsedMs is never negative and no step makes it smaller.
C1_ElapsedNeverDecreases ==
  [][0 <= CurrentElapsedMs /\ CurrentElapsedMs <= CurrentElapsedMs']_vars

\* a second run segment is open on top of a counted first one
C1_Witness ==
  /\ intervalId # NoTimer
  /\ elapsedMs > 0
  /\ now > startTimestamp

\* C2: right after reset(), whatever it found, the stopwatch is Stopped,
\* currentElapsedMs is 0 and there are no laps.
C2_ResetYieldsDefault ==
  lastOp = "reset" =>
    /\ intervalId = NoTimer
    /\ timers = {}
    /\ CurrentElapsedMs = 0
    /\ elapsedMs = 0
    /\ laps = <<>>

\* reset() found a running stopwatch with time on it and laps
C2_Witness ==
  /\ lastOp = "reset"
  /\ pre.running
  /\ pre.cur > 0
  /\ pre.nlaps > 0

\* C3: lap() while Stopped changes neither the lap sequence nor the
\* persisted lap list.
C3_LapWhileStoppedIsNoop ==
  [][(lastOp' = "lap" /\ intervalId = NoTimer) =>
       (laps' = laps /\ store' = store)]_vars

\* C4: start() while Running changes nothing: same anchor, same single
\* timer, same accumulated time, hence the same currentElapsedMs afterwards.
C4_StartWhileRunningIsNoop ==
  [][(lastOp' = "start" /\ intervalId # NoTimer) =>
       (/\ UNCHANGED ProgramVars
        /\ CurrentElapsedMs' = CurrentElapsedMs)]_vars

\* start() came while a segment had been running for some time
C4_Witness ==
  /\ lastOp = "start"
  /\ pre.running
  /\ intervalId # NoTimer
  /\ now > startTimestamp

\* C5: at most one interval timer is active, one is active exactly when the
\* stopwatch is Running (it is the one intervalId names), none is left after
\* stop() or reset(), and a tick only ever fires while Running.
C5_OneTimerIffRunning ==
  /\ Cardinality(timers) <= 1
  /\ (timers # {}) <=> (intervalId # NoTimer)
  /\ intervalId # NoTimer => timers = {intervalId}
  /\ lastOp \in {"stop", "reset"} => timers = {}
  /\ lastOp = "tick" => intervalId # NoTimer

\* a timer was acquired again after an earlier one had been released
C5_Witness ==
  /\ lastOp = "start"
  /\ ~pre.running
  /\ elapsedMs > 0
  /\ timers = {intervalId}

\* C6: stop() leaves currentElapsedMs at the value it had on entry (the clock
\* not having moved): the final segment is counted once.
C6_StopKeepsElapsed ==
  [][lastOp' = "stop" => CurrentElapsedMs' = CurrentElapsedMs]_vars

\* stop() closed a segment of positive length on top of earlier time
C6_Witness ==
  /\ lastOp = "stop"
  /\ pre.running
  /\ now > startTimestamp
  /\ elapsedMs > now - startTimestamp

\* C7: currentElapsedMs is the clock time that passed while Running: the
\* completed segments plus the open one, and nothing of the time Stopped.
C7_ElapsedIsRunningTime == CurrentElapsedMs = runMs

\* the scenario at half scale: run 0..1000, stopped until 2500, read at 3000
C7_Witness ==
  /\ intervalId # NoTimer
  /\ elapsedMs = 1000
  /\ startTimestamp = 2500
  /\ now = 3000
  /\ CurrentElapsedMs = 1500

\* C8: what saveState writes for the current globals is read back by
\* loadState as the same accumulated ms and the same laps, a page reload
\* reproduces both, and the page is Stopped after it.
C8_SaveLoadRoundTrip ==
  [][/\ LET m == loadState(saveState(store, elapsedMs, laps, DateNow, TRUE),
                           InitialState)
        IN MemElapsedMs(m) = elapsedMs /\ MemLaps(m) = laps
     /\ lastOp' = "reload" =>
          /\ elapsedMs' = elapsedMs
          /\ laps' = laps
          /\ intervalId' = NoTimer
          /\ timers' = {}]_vars

\* a page reloaded while Running, with time and two laps coming back
C8_Witness ==
  /\ lastOp = "reload"
  /\ pre.running
  /\ elapsedMs > 0
  /\ Len(laps) = 2

\* the malformed items of C9
Malformed(raw) ==
  \/ raw.kind = "garbage"
  \/ /\ raw.kind = "json"
     /\ \/ GetProp(raw.val, "laps").t # "array"
        \/ GetProp(raw.val, "elapsedMs").t # "number"
        \/ GetProp(raw.val, "elapsedMs").v < 0

\* C9: loadState on a malformed item leaves the full default state.
C9_MalformedLoadsDefaults ==
  (lastOp = "loadState" /\ Malformed(store)) => loaded = InitialState

\* C10: lap() puts one lap, of the current elapsed time, in front of the
\* unchanged others; start() and stop() leave the laps alone; a step that
\* changes them in any other way is reset().
C10_LapsNewestFirst ==
  [][/\ lastOp' = "lap" =>
          /\ Len(laps') = Len(laps) + 1
          /\ Tail(laps') = laps
          /\ Head(laps').timeMs = CurrentElapsedMs
     /\ lastOp' \in {"start", "stop"} => laps' = laps
     /\ (laps' # laps /\ lastOp' # "lap") => (lastOp' = "reset" /\ laps' = <<>>)
    ]_vars

\* laps taken at 1000 and then at 3000
C10_Witness ==
  /\ lastOp = "lap"
  /\ Len(laps) = 2
  /\ laps[1].timeMs = 3000
  /\ laps[2].timeMs = 1000
  /\ laps[1].label = <<"0", "0", ":", "0", "0", ":", "0", "3">>

\* C11: after the declarations and init() have run, whatever the stored item
\* holds and whether or not the page was Running when it was closed, the
\* stopwatch is Stopped and no interval timer is active.
C11_StartupIsStopped ==
  lastOp = "reload" => (intervalId = NoTimer /\ timers = {})

\* a Running page came back with a stored time of 2000 ms and two laps
C11_Witness ==
  /\ lastOp = "reload"
  /\ pre.running
  /\ loaded.elapsedMs = JNum(2000)
  /\ Len(loaded.laps.v) = 2
  /\ intervalId = NoTimer

\* C12: a display refresh, by the tick or on becoming visible, changes
\* nothing but the displayed text: accumulated ms, anchor, timer handle,
\* active timers, laps and the stored item stay as they are.
C12_RefreshChangesNoState ==
  [][lastOp' \in {"tick", "visibilitychange"} =>
       UNCHANGED <<elapsedMs, startTimestamp, intervalId, timers, laps,
                   store, disabled>>]_vars

\* a tick refreshed the text in the second run segment, with a lap taken
C12_Witness ==
  /\ lastOp = "tick"
  /\ elapsedMs > 0
  /\ now > startTimestamp
  /\ Len(laps) > 0
  /\ timeText = formatTime(CurrentElapsedMs \div 1000)
  /\ timeText # formatTime(0)

\* C13: writes succeeding, the stored item always holds the accumulated ms
\* and the laps of the globals (nothing stored: both still at their
\* defaults), in particular right after stop(), reset() and lap().
C13_StoredMatchesGlobals ==
  IF store.kind = "none"
  THEN elapsedMs = 0 /\ laps = <<>>
  ELSE /\ store.kind = "json"
       /\ store.val.t = "object"
       /\ store.val.v.elapsedMs = JNum(elapsedMs)
       /\ store.val.v.laps.t = "array"
       /\ Len(store.val.v.laps.v) = Len(laps)
       /\ \A i \in 1..Len(laps) :
            /\ store.val.v.laps.v[i].v.timeMs = JNum(laps[i].timeMs)
            /\ store.val.v.laps.v[i].v.label = JStr(laps[i].label)

\* a second lap was taken and stored in a run that follows an earlier stop
C13_Witness ==
  /\ lastOp = "lap"
  /\ pre.running
  /\ store.kind = "json"
  /\ elapsedMs > 0
  /\ Len(laps) = 2
  /\ storageOk

\* C14: with setItem throwing, stop(), reset() and lap() make the same
\* change to the globals, the timers and the display as they are specified
\* to make when the write succeeds, and the stored item is left as it was.
C14_FailedWriteKeepsTransition ==
  [][/\ (lastOp' = "stop" /\ intervalId # NoTimer) =>
          /\ elapsedMs' = elapsedMs + (now - startTimestamp)
          /\ intervalId' = NoTimer
          /\ timers' = {}
          /\ laps' = laps
          /\ timeText' = formatTime(elapsedMs' \div 1000)
          /\ disabled'.stop
     /\ lastOp' = "reset" =>
          /\ elapsedMs' = 0
          /\ intervalId' = NoTimer
          /\ timers' = {}
          /\ laps' = <<>>
          /\ timeText' = formatTime(0)
          /\ disabled'.reset
     /\ lastOp' = "lap" =>
          /\ laps' = <<[timeMs |-> CurrentElapsedMs,
                        label |-> formatTime(CurrentElapsedMs \div 1000)]>>
                     \o laps
          /\ UNCHANGED <<elapsedMs, intervalId, timers>>
     /\ ~storageOk => store' = store
    ]_vars

\* stop() went through on a storage that took no write
C14_Witness ==
  /\ ~storageOk
  /\ lastOp = "stop"
  /\ pre.running
  /\ elapsedMs > 0
  /\ Len(laps) > 0
  /\ store = NoItem

\* C15: stop() while Stopped changes nothing: accumulated ms, anchor, laps,
\* timer handle, display, buttons and the stored item stay as they are.
C15_StopWhileStoppedIsNoop ==
  [][(lastOp' = "stop" /\ intervalId = NoTimer) =>
       (UNCHANGED ProgramVars /\ intervalId' = NoTimer)]_vars

\* stop() came a while after an earlier stop, with time and a lap on record
C15_Witness ==
  /\ lastOp = "stop"
  /\ ~pre.running
  /\ elapsedMs > 0
  /\ now > startTimestamp + elapsedMs
  /\ Len(laps) > 0

\* C16: the lap that lap() records holds currentElapsedMs as of the call,
\* and its label is formatTime of that value cut to whole seconds, a
\* digits:digits:digits text that reads as that many seconds.
C16_LapIsSnapshot ==
  [][lastOp' = "lap" =>
       /\ Head(laps').timeMs = CurrentElapsedMs
       /\ Head(laps').label = formatTime(CurrentElapsedMs \div 1000)
       /\ IsClockText(Head(laps').label)
       /\ TextSeconds(Head(laps').label) = CurrentElapsedMs \div 1000]_vars

\* a lap at 1500 ms, in a second run segment, is labelled 00:00:01
C16_Witness ==
  /\ lastOp = "lap"
  /\ pre.running
  /\ elapsedMs > 0
  /\ laps[1].timeMs = 1500
  /\ laps[1].label = <<"0", "0", ":", "0", "0", ":", "0", "1">>

\* C17: for t whole seconds, t >= 0, formatTime(t) is H:M:S with
\* H = floor(t/3600), M = floor((t mod 3600)/60), S = t mod 60, M and S in
\* 0..59, 3600*H + 60*M + S = t, M and S of 2 digits, H zero-padded to 2
\* digits and longer than 2 digits exactly when t >= 360000.
C17_FormatTimeFields ==
  lastOp \in {"reload", "visibilitychange"} =>
    LET t == elapsedMs \div 1000
        text == formatTime(t)
        f == Fields(text)
        H == DigitsToNat(f[1])
        M == DigitsToNat(f[2])
        S == DigitsToNat(f[3])
    IN /\ lastOp = "reload" => timeText = text
       /\ IsClockText(text)
       /\ H = t \div 3600
       /\ M = (t % 3600) \div 60
       /\ S = t % 60
       /\ M \in 0..59 /\ S \in 0..59
       /\ 3600 * H + 60 * M + S = t
       /\ Len(f[2]) = 2 /\ Len(f[3]) = 2
       /\ Len(f[1]) >= 2
       /\ (Len(f[1]) > 2) <=> (t >= 360000)
       /\ (Len(f[1]) > 2) => f[1][1] # "0"

\* 100:59:59 is on display: an hour field of 3 digits, M and S at their top
C17_Witness ==
  /\ lastOp = "reload"
  /\ elapsedMs = 363599999
  /\ timeText = <<"1", "0", "0", ":", "5", "9", ":", "5", "9">>

\* C18: in every reachable state, page reloads included, no lap holds more
\* than the current currentElapsedMs.
C18_LapsWithinElapsed ==
  \A i \in 1..Len(laps) : laps[i].timeMs <= CurrentElapsedMs

\* C18 as amended: no lap holds more than currentElapsedMs, and only the
\* reload of a page that was Running can end that: every other step, a
\* reload while Stopped included, keeps the laps within currentElapsedMs.
C18_OnlyRunningReloadLosesTime ==
  [][(C18_LapsWithinElapsed /\ ~(lastOp' = "reload" /\ intervalId # NoTimer))
       => C18_LapsWithinElapsed']_vars

\* a Stopped page came back with its two laps and the time they fit in
C18_Witness ==
  /\ lastOp = "reload"
  /\ ~pre.running
  /\ Len(laps) = 2
  /\ laps[1].timeMs > laps[2].timeMs
  /\ laps[1].timeMs <= elapsedMs

\* C19: after init() and after every button listener, Start is disabled
\* exactly when Running, Stop and Lap are enabled exactly when Running, and
\* Reset is disabled only when Stopped with no accumulated ms and no laps.
C19_ButtonsMatchState ==
  lastOp \in {"init", "reload", "start", "stop", "reset", "lap"} =>
    /\ disabled.start <=> (intervalId # NoTimer)
    /\ disabled.stop <=> (intervalId = NoTimer)
    /\ disabled.lap <=> (intervalId = NoTimer)
    /\ disabled.reset => (intervalId = NoTimer /\ elapsedMs = 0 /\ laps = <<>>)

\* what C20 says of one state: the text, the timer handle, the accumulated
\* ms and currentElapsedMs
DisplayFits(text, id, e, cur) ==
  /\ IsClockText(text)
  /\ id = NoTimer => text = formatTime(e \div 1000)
  /\ id # NoTimer => TextSeconds(text) <= cur \div 1000

\* C20: while Stopped the text on display is formatTime of the accumulated
\* ms cut to seconds; while Running the seconds on display are never more
\* than currentElapsedMs cut to seconds, and no step taken while Running
\* lowers them.
C20_DisplayFollowsElapsed ==
  [][/\ lastOp = "init" =>
          DisplayFits(timeText, intervalId, elapsedMs,
                      CurrentElapsed(elapsedMs, intervalId, startTimestamp, now))
     /\ DisplayFits(timeText', intervalId', elapsedMs',
                    CurrentElapsed(elapsedMs', intervalId', startTimestamp', now'))
     /\ (intervalId # NoTimer /\ intervalId' # NoTimer /\ timeText' # timeText)
          => TextSeconds(timeText') >= TextSeconds(timeText)]_vars

\* stop() at 2500 ms leaves 00:00:02 on display, a tick having shown less
C20_Witness ==
  /\ lastOp = "stop"
  /\ pre.running
  /\ elapsedMs = 2500
  /\ timeText = <<"0", "0", ":", "0", "0", ":", "0", "2">>

====
